---- MODULE Spec2Model ----
(***************************************************************************)
(* MarketDash (src/app.py): the indicator library (calculate_sma,          *)
(* calculate_ema, calculate_rsi, calculate_bollinger_bands,                *)
(* calculate_macd) and process_stock_data, which builds the 60-day window  *)
(* from the dated table, runs the library over it and trims every series   *)
(* to the last 30 entries.                                                 *)
(*                                                                         *)
(* Python numbers are modelled as exact rationals [num, den] (den > 0,     *)
(* lowest terms); the square root taken by np.std is kept symbolic.  The   *)
(* list element None is the value None below; a Python exception raised    *)
(* by a primitive operation is an Exc value that every later operation     *)
(* propagates, so that a call raises iff its result holds an Exc.          *)
(***************************************************************************)
EXTENDS Integers, Sequences, FiniteSets, TLC

VARIABLES
    \* ---- one call of process_stock_data ----
    data,        \* the argument: 'Time Series (Daily)' table (or its absence) and 'Meta Data'
    order,       \* the sequence in which the seven indicator calls are issued
    pc,          \* position inside process_stock_data
    step,        \* how many indicator calls have been issued
    dates, prices, volumes, highs, lows, opens,   \* the locals of lines 153-158
    ind,         \* the indicator locals of lines 173-179, by name
    result,      \* what the call returned (a bundle, None) or the exception it raised
    \* ---- one call of a library function ----
    lib_prices,  \* the price series given to the function
    lib_call,    \* which function was called, with its parameters
    lib_ret      \* the tuple of series it returned, or the exception it raised

vars == <<data, order, pc, step, dates, prices, volumes, highs, lows, opens,
          ind, result, lib_prices, lib_call, lib_ret>>

procVars == <<data, order, pc, step, dates, prices, volumes, highs, lows, opens,
              ind, result>>

libVars == <<lib_prices, lib_call, lib_ret>>

(***************************************************************************)
(* Values                                                                  *)
(***************************************************************************)
None == [none |-> TRUE]

Exc(kind) == [exc |-> kind]

IsExc(v) == "exc" \in DOMAIN v

IsNum(v) == "num" \in DOMAIN v

Abs(x) == IF x < 0 THEN -x ELSE x

Min(a, b) == IF a < b THEN a ELSE b

Max(a, b) == IF a > b THEN a ELSE b

RECURSIVE GCD(_, _)
GCD(a, b) == IF b = 0 THEN a ELSE GCD(b, a % b)

\* the rational n/d (d > 0) in lowest terms
Norm(n, d) ==
    LET g == GCD(Abs(n), d)
    IN  [num |-> n \div g, den |-> d \div g]

Rat(n) == [num |-> n, den |-> 1]

\* operand check shared by the arithmetic operators: an exception already
\* raised propagates, None as an operand is Python's TypeError
Operands(a, b, r) ==
    IF IsExc(a) THEN a
    ELSE IF IsExc(b) THEN b
    ELSE IF ~IsNum(a) \/ ~IsNum(b) THEN Exc("TypeError")
    ELSE r

Add(a, b) ==
    Operands(a, b,
        LET g == GCD(a.den, b.den)
        IN  Norm(a.num * (b.den \div g) + b.num * (a.den \div g),
                 (a.den \div g) * b.den))

Neg(a) == [num |-> -a.num, den |-> a.den]

Sub(a, b) == Operands(a, b, Add(a, Neg(b)))

Mul(a, b) ==
    Operands(a, b,
        LET g1 == GCD(Abs(a.num), b.den)
            g2 == GCD(Abs(b.num), a.den)
        IN  [num |-> (a.num \div g1) * (b.num \div g2),
             den |-> (a.den \div g2) * (b.den \div g1)])

Div(a, b) ==
    Operands(a, b,
        IF b.num = 0 THEN Exc("ZeroDivisionError")
        ELSE IF b.num > 0 THEN Mul(a, [num |-> b.den, den |-> b.num])
        ELSE Mul(a, [num |-> -b.den, den |-> -b.num]))

Less(a, b) == a.num * b.den < b.num * a.den

\* Python's s[a:b] on a list (0-based, end exclusive, out-of-range clamped)
PyIdx(k, n) == IF k < 0 THEN Max(k + n, 0) ELSE Min(k, n)

Slice(s, a, b) == SubSeq(s, PyIdx(a, Len(s)) + 1, PyIdx(b, Len(s)))

\* Python's s[i] on a list, i >= 0
Item(s, i) == IF i < Len(s) THEN s[i + 1] ELSE Exc("IndexError")

\* a list built item by item (a comprehension, [v] * n): every item is
\* evaluated once, when the list is built
List(f) == SubSeq(f, 1, Len(f))

\* Python's [v] * n
Repeat(v, n) == List([i \in 1..Max(n, 0) |-> v])

\* Every loop "for i in range(lo, hi)" below is run in order, the lower half
\* of the range before its upper half, and is left as soon as an exception
\* has escaped its body.

\* Python's sum(xs): the items added left to right to the int 0; an
\* exception ends it
RECURSIVE sum_loop(_, _, _, _)
sum_loop(xs, lo, hi, acc) ==
    IF lo >= hi \/ IsExc(acc) THEN acc
    ELSE IF hi = lo + 1 THEN Add(acc, xs[lo + 1])
    ELSE sum_loop(xs, (lo + hi) \div 2, hi,
            sum_loop(xs, lo, (lo + hi) \div 2, acc))

sum(xs) == sum_loop(xs, 0, Len(xs), Rat(0))

\* a list holds the exception that escaped while it was built
Raised(s) ==
    IF \E i \in 1..Len(s) : IsExc(s[i])
    THEN s[CHOOSE i \in 1..Len(s) : IsExc(s[i]) /\ \A j \in 1..(i - 1) : ~IsExc(s[j])]
    ELSE None

\* the statement that appended the last item raised: the loop is left
Failed(s) == Len(s) > 0 /\ IsExc(s[Len(s)])

\* the exception that escaped while one of the lists of a tuple was built
FirstRaised(t) ==
    IF \E k \in 1..Len(t) : Raised(t[k]) # None
    THEN Raised(t[CHOOSE k \in 1..Len(t) :
                    Raised(t[k]) # None /\ \A j \in 1..(k - 1) : Raised(t[j]) = None])
    ELSE None

(***************************************************************************)
(* calculate_sma, lines 42-53                                              *)
(***************************************************************************)
\* lines 49-52: the body of the loop
sma_step(prices_, window, i, sma) ==
    IF i < window - 1
    THEN Append(sma, None)
    ELSE Append(sma, Div(sum(Slice(prices_, i - window + 1, i + 1)), Rat(window)))

\* lines 48-52: the loop
RECURSIVE sma_loop(_, _, _, _, _)
sma_loop(prices_, window, lo, hi, sma) ==
    IF lo >= hi \/ Failed(sma) THEN sma
    ELSE IF hi = lo + 1 THEN sma_step(prices_, window, lo, sma)
    ELSE sma_loop(prices_, window, (lo + hi) \div 2, hi,
            sma_loop(prices_, window, lo, (lo + hi) \div 2, sma))

calculate_sma(prices_, window) ==
    IF Len(prices_) < window
    THEN Repeat(None, Len(prices_))
    ELSE sma_loop(prices_, window, 0, Len(prices_), <<>>)

(***************************************************************************)
(* calculate_ema, lines 55-67                                              *)
(***************************************************************************)
\* lines 65-66: the body of the loop
ema_step(prices_, multiplier, i, ema) ==
    Append(ema, Add(Mul(Item(prices_, i), multiplier),
                    Mul(ema[Len(ema)], Sub(Rat(1), multiplier))))

\* lines 64-65: the loop
RECURSIVE ema_loop(_, _, _, _, _)
ema_loop(prices_, multiplier, lo, hi, ema) ==
    IF lo >= hi \/ Failed(ema) THEN ema
    ELSE IF hi = lo + 1 THEN ema_step(prices_, multiplier, lo, ema)
    ELSE ema_loop(prices_, multiplier, (lo + hi) \div 2, hi,
            ema_loop(prices_, multiplier, lo, (lo + hi) \div 2, ema))

calculate_ema(prices_, window) ==
    IF Len(prices_) < window
    THEN Repeat(None, Len(prices_))
    ELSE LET multiplier == Div(Rat(2), Rat(window + 1))
             seed == Append(Repeat(None, window - 1),
                            Div(sum(Slice(prices_, 0, window)), Rat(window)))
         IN  ema_loop(prices_, multiplier, window, Len(prices_), seed)

(***************************************************************************)
(* calculate_rsi, lines 69-93                                              *)
(***************************************************************************)
\* line 74: [prices[i] - prices[i-1] for i in range(1, len(prices))]
rsi_deltas(prices_) ==
    List([k \in 1..(Len(prices_) - 1) |-> Sub(Item(prices_, k), Item(prices_, k - 1))])

\* line 75: delta if delta > 0 else 0
rsi_gain(delta) ==
    Operands(delta, Rat(0), IF Less(Rat(0), delta) THEN delta ELSE Rat(0))

\* line 76: -delta if delta < 0 else 0
rsi_loss(delta) ==
    Operands(delta, Rat(0), IF Less(delta, Rat(0)) THEN Neg(delta) ELSE Rat(0))

\* rsi_value with the zero-loss case appending 0 instead of 100
rsi_value_zero(avg_gain, avg_loss) ==
    IF avg_loss = Rat(0)
    THEN Rat(0)
    ELSE LET rs == Div(avg_gain, avg_loss)
         IN  Sub(Rat(100), Div(Rat(100), Add(Rat(1), rs)))

\* lines 87-91: one RSI value from the smoothed averages
rsi_value(avg_gain, avg_loss) ==
    IF avg_loss = Rat(0)
    THEN Rat(100)
    ELSE LET rs == Div(avg_gain, avg_loss)
         IN  Sub(Rat(100), Div(Rat(100), Add(Rat(1), rs)))

\* lines 84-85: Wilder smoothing of one average
wilder(avg, x, window) ==
    Div(Add(Mul(avg, Rat(window - 1)), x), Rat(window))

\* lines 84-91: the body of the loop; its state is (avg_gain, avg_loss, rsi)
rsi_step(gains, losses, window, i, st) ==
    LET g == wilder(st.avg_gain, Item(gains, i), window)
        l == wilder(st.avg_loss, Item(losses, i), window)
    IN  [avg_gain |-> g, avg_loss |-> l, rsi |-> Append(st.rsi, rsi_value(g, l))]

\* lines 83-91: the loop
RECURSIVE rsi_range(_, _, _, _, _, _)
rsi_range(gains, losses, window, lo, hi, st) ==
    IF lo >= hi \/ Failed(st.rsi) THEN st
    ELSE IF hi = lo + 1 THEN rsi_step(gains, losses, window, lo, st)
    ELSE rsi_range(gains, losses, window, (lo + hi) \div 2, hi,
            rsi_range(gains, losses, window, lo, (lo + hi) \div 2, st))

\* lines 83-91: the loop, from the seed averages and the list built so far
rsi_loop(gains, losses, window, avg_gain, avg_loss, rsi) ==
    rsi_range(gains, losses, window, window, Len(gains),
              [avg_gain |-> avg_gain, avg_loss |-> avg_loss, rsi |-> rsi]).rsi

\* calculate_rsi returning rsi without the None for the first price
calculate_rsi_nopad(prices_, window) ==
    IF Len(prices_) < window + 1
    THEN Repeat(None, Len(prices_))
    ELSE LET deltas == rsi_deltas(prices_)
             gains == List([k \in 1..Len(deltas) |-> rsi_gain(deltas[k])])
             losses == List([k \in 1..Len(deltas) |-> rsi_loss(deltas[k])])
             avg_gain == Div(sum(Slice(gains, 0, window)), Rat(window))
             avg_loss == Div(sum(Slice(losses, 0, window)), Rat(window))
         IN  rsi_loop(gains, losses, window, avg_gain, avg_loss,
                      Repeat(None, window))

\* calculate_rsi emitting a value from the seed averages, so that the first
\* defined entry is at index window
calculate_rsi_seeded(prices_, window) ==
    IF Len(prices_) < window + 1
    THEN Repeat(None, Len(prices_))
    ELSE LET deltas == rsi_deltas(prices_)
             gains == List([k \in 1..Len(deltas) |-> rsi_gain(deltas[k])])
             losses == List([k \in 1..Len(deltas) |-> rsi_loss(deltas[k])])
             avg_gain == Div(sum(Slice(gains, 0, window)), Rat(window))
             avg_loss == Div(sum(Slice(losses, 0, window)), Rat(window))
             rsi == rsi_loop(gains, losses, window, avg_gain, avg_loss,
                             Append(Repeat(None, window - 1), rsi_value(avg_gain, avg_loss)))
         IN  <<None>> \o rsi

calculate_rsi(prices_, window) ==
    IF Len(prices_) < window + 1
    THEN Repeat(None, Len(prices_))
    ELSE LET deltas == rsi_deltas(prices_)
             gains == List([k \in 1..Len(deltas) |-> rsi_gain(deltas[k])])
             losses == List([k \in 1..Len(deltas) |-> rsi_loss(deltas[k])])
             avg_gain == Div(sum(Slice(gains, 0, window)), Rat(window))
             avg_loss == Div(sum(Slice(losses, 0, window)), Rat(window))
             rsi == rsi_loop(gains, losses, window, avg_gain, avg_loss,
                             Repeat(None, window))
         IN  <<None>> \o rsi

(***************************************************************************)
(* calculate_bollinger_bands, lines 95-113                                 *)
(***************************************************************************)
\* np.std(xs): the population standard deviation, the non-negative root of
\* the mean squared deviation; the root is kept symbolic as [sqrt |-> variance]
np_std(xs) ==
    LET n == Len(xs)
        mean == Div(sum(xs), Rat(n))
        sq == List([k \in 1..n |-> Mul(Sub(xs[k], mean), Sub(xs[k], mean))])
        variance == Div(sum(sq), Rat(n))
    IN  IF IsExc(variance) THEN variance ELSE [sqrt |-> variance]

\* lines 110-111: base + coef * std_dev, an exact real; it is the rational
\* base itself when the deviation is zero
band(base, coef, std_dev) ==
    IF IsExc(base) THEN base
    ELSE IF IsExc(std_dev) THEN std_dev
    ELSE IF ~IsNum(base) THEN Exc("TypeError")
    ELSE IF std_dev.sqrt = Rat(0) THEN base
    ELSE [base |-> base, coef |-> coef, rad |-> std_dev.sqrt]

\* lines 105-111: the body of the loop; its state is (upper_band, lower_band)
bollinger_step(prices_, window, num_std, sma, i, st) ==
    IF i < window - 1
    THEN [upper_band |-> Append(st.upper_band, None),
          lower_band |-> Append(st.lower_band, None)]
    ELSE LET std_dev == np_std(Slice(prices_, i - window + 1, i + 1))
         IN  [upper_band |-> Append(st.upper_band, band(Item(sma, i), num_std, std_dev)),
              lower_band |-> Append(st.lower_band, band(Item(sma, i), -num_std, std_dev))]

\* lines 104-111: the loop
RECURSIVE bollinger_range(_, _, _, _, _, _, _)
bollinger_range(prices_, window, num_std, sma, lo, hi, st) ==
    IF lo >= hi \/ Failed(st.upper_band) \/ Failed(st.lower_band) THEN st
    ELSE IF hi = lo + 1 THEN bollinger_step(prices_, window, num_std, sma, lo, st)
    ELSE bollinger_range(prices_, window, num_std, sma, (lo + hi) \div 2, hi,
            bollinger_range(prices_, window, num_std, sma, lo, (lo + hi) \div 2, st))

\* lines 101-113: the loop and the returned tuple
bollinger_loop(prices_, window, num_std, sma) ==
    LET st == bollinger_range(prices_, window, num_std, sma, 0, Len(prices_),
                              [upper_band |-> <<>>, lower_band |-> <<>>])
    IN  <<st.upper_band, sma, st.lower_band>>

calculate_bollinger_bands(prices_, window, num_std) ==
    IF Len(prices_) < window
    THEN <<Repeat(None, Len(prices_)), Repeat(None, Len(prices_)), Repeat(None, Len(prices_))>>
    ELSE bollinger_loop(prices_, window, num_std, calculate_sma(prices_, window))

(***************************************************************************)
(* calculate_macd, lines 115-144                                           *)
(***************************************************************************)
\* lines 120-125 and 137-142: a[i] - b[i], None where either is None, i < n
diff_step(a, b, i, out) ==
    LET x == Item(a, i)
        y == Item(b, i)
    IN  IF IsExc(x) THEN Append(out, x)
        ELSE IF IsExc(y) THEN Append(out, y)
        ELSE IF x = None \/ y = None THEN Append(out, None)
        ELSE Append(out, Sub(x, y))

RECURSIVE diff_range(_, _, _, _, _)
diff_range(a, b, lo, hi, out) ==
    IF lo >= hi \/ Failed(out) THEN out
    ELSE IF hi = lo + 1 THEN diff_step(a, b, lo, out)
    ELSE diff_range(a, b, (lo + hi) \div 2, hi,
            diff_range(a, b, lo, (lo + hi) \div 2, out))

diff_loop(a, b, n) == diff_range(a, b, 0, n, <<>>)

\* line 128: [x for x in macd_line if x is not None]
not_none(s) == SelectSeq(s, LAMBDA x : x # None)

\* macd_signal_line with the padding put after the EMA instead of before it
macd_signal_line_padafter(macd_line, signal) ==
    LET macd_values == not_none(macd_line)
    IN  IF Len(macd_values) >= signal
        THEN calculate_ema(macd_values, signal)
                \o Repeat(None, Len(macd_line) - Len(macd_values))
        ELSE Repeat(None, Len(macd_line))

\* lines 129-134
macd_signal_line(macd_line, signal) ==
    LET macd_values == not_none(macd_line)
    IN  IF Len(macd_values) >= signal
        THEN Repeat(None, Len(macd_line) - Len(macd_values))
                \o calculate_ema(macd_values, signal)
        ELSE Repeat(None, Len(macd_line))

\* calculate_macd with the histogram's operands exchanged
calculate_macd_swapped(prices_, fast, slow, signal) ==
    LET ema_fast == calculate_ema(prices_, fast)
        ema_slow == calculate_ema(prices_, slow)
        macd_line == diff_loop(ema_fast, ema_slow, Len(prices_))
        signal_line == macd_signal_line(macd_line, signal)
        histogram == diff_loop(signal_line, macd_line, Len(macd_line))
    IN  <<macd_line, signal_line, histogram>>

calculate_macd(prices_, fast, slow, signal) ==
    LET ema_fast == calculate_ema(prices_, fast)
        ema_slow == calculate_ema(prices_, slow)
        macd_line == diff_loop(ema_fast, ema_slow, Len(prices_))
        signal_line == macd_signal_line(macd_line, signal)
        histogram == diff_loop(macd_line, signal_line, Len(macd_line))
    IN  <<macd_line, signal_line, histogram>>

(***************************************************************************)
(* Strings, float() and int()                                              *)
(*                                                                         *)
(* A Python str is a sequence of one-character strings.  The characters    *)
(* that occur in the modelled tables are the decimal digits, ".", "-", "/" *)
(* and the letters of "N/A".                                               *)
(***************************************************************************)
Ascii ==
    ("-" :> 45) @@ ("." :> 46) @@ ("/" :> 47) @@
    ("0" :> 48) @@ ("1" :> 49) @@ ("2" :> 50) @@ ("3" :> 51) @@ ("4" :> 52) @@
    ("5" :> 53) @@ ("6" :> 54) @@ ("7" :> 55) @@ ("8" :> 56) @@ ("9" :> 57) @@
    ("A" :> 65) @@ ("N" :> 78)

DigitChars == {"0", "1", "2", "3", "4", "5", "6", "7", "8", "9"}

\* Python's a < b on str: lexicographic by code point
RECURSIVE StrLess(_, _)
StrLess(a, b) ==
    IF b = <<>> THEN FALSE
    ELSE IF a = <<>> THEN TRUE
    ELSE IF Ascii[a[1]] # Ascii[b[1]] THEN Ascii[a[1]] < Ascii[b[1]]
    ELSE StrLess(Tail(a), Tail(b))

RECURSIVE DigitsValue(_)
DigitsValue(ds) ==
    IF ds = <<>> THEN 0
    ELSE 10 * DigitsValue(SubSeq(ds, 1, Len(ds) - 1)) + (Ascii[ds[Len(ds)]] - 48)

RECURSIVE Pow10(_)
Pow10(k) == IF k = 0 THEN 1 ELSE 10 * Pow10(k - 1)

\* int(s) for s over the alphabet above: the decimal digits of a natural
\* number, ValueError for anything else
py_int(s) ==
    IF s = <<>> \/ \E i \in 1..Len(s) : s[i] \notin DigitChars THEN Exc("ValueError")
    ELSE Rat(DigitsValue(s))

\* float(s) for s over the alphabet above: digits with at most one ".",
\* and at least one digit; ValueError for anything else
py_float(s) ==
    LET dots == {i \in 1..Len(s) : s[i] = "."}
        digits == SelectSeq(s, LAMBDA c : c \in DigitChars)
    IN  IF \/ digits = <<>>
           \/ Cardinality(dots) > 1
           \/ \E i \in 1..Len(s) : s[i] \notin DigitChars \cup {"."}
        THEN Exc("ValueError")
        ELSE LET frac == IF dots = {} THEN 0 ELSE Len(s) - (CHOOSE i \in dots : TRUE)
             IN  Norm(DigitsValue(digits), Pow10(frac))

\* float(d[key]) and int(d[key]) on a dict: the lookup raises KeyError before
\* the conversion is called
get_float(d, key) == IF key \in DOMAIN d THEN py_float(d[key]) ELSE Exc("KeyError")

get_int(d, key) == IF key \in DOMAIN d THEN py_int(d[key]) ELSE Exc("KeyError")

(***************************************************************************)
(* process_stock_data, lines 146-209                                       *)
(***************************************************************************)
\* sorted(keys, reverse=True), line 161
\* how many items of the descending list s, between lo and hi, are greater
\* than k
RECURSIVE bisect(_, _, _, _)
bisect(s, k, lo, hi) ==
    IF lo >= hi THEN lo
    ELSE LET mid == (lo + hi) \div 2
         IN  IF StrLess(k, s[mid + 1]) THEN bisect(s, k, mid + 1, hi)
             ELSE bisect(s, k, lo, mid)

\* k put into the descending list s, after the items greater than it
insert_desc(s, k) ==
    LET before == bisect(s, k, 0, Len(s))
    IN  SubSeq(s, 1, before) \o <<k>> \o SubSeq(s, before + 1, Len(s))

\* the keys put one by one into the descending list; comparing two str
\* raises nothing
RECURSIVE sort_loop(_, _, _, _)
sort_loop(keys, lo, hi, acc) ==
    IF lo >= hi \/ Len(acc) # lo THEN acc
    ELSE IF hi = lo + 1 THEN insert_desc(acc, keys[lo + 1])
    ELSE sort_loop(keys, (lo + hi) \div 2, hi,
            sort_loop(keys, lo, (lo + hi) \div 2, acc))

sorted_reverse(keys) == sort_loop(keys, 0, Len(keys), <<>>)

\* list.reverse(), line 162
reverse(s) == List([i \in 1..Len(s) |-> s[Len(s) + 1 - i]])

\* sorted(keys) with the most recent 60 cut from the wrong end
sorted_dates_oldest(time_series_keys) ==
    reverse(Slice(reverse(sorted_reverse(time_series_keys)), 0, 60))

\* lines 161-162
sorted_dates(time_series_keys) ==
    reverse(Slice(sorted_reverse(time_series_keys), 0, 60))

NoLists ==
    [raised |-> None, dates |-> <<>>, prices |-> <<>>, volumes |-> <<>>,
     highs |-> <<>>, lows |-> <<>>, opens |-> <<>>]

\* the first exception among the values evaluated in this order
FirstExc(vs) == Raised(vs)

\* lines 166-170: the fields of the date's record, parsed in this order
parsed(rec) ==
    <<get_float(rec, "4. close"), get_int(rec, "5. volume"), get_float(rec, "2. high"),
      get_float(rec, "3. low"), get_float(rec, "1. open")>>

\* lines 165-170: the date and its parsed fields appended
appended(acc, date, v) ==
    [raised |-> None,
     dates |-> Append(acc.dates, date),
     prices |-> Append(acc.prices, v[1]),
     volumes |-> Append(acc.volumes, v[2]),
     highs |-> Append(acc.highs, v[3]),
     lows |-> Append(acc.lows, v[4]),
     opens |-> Append(acc.opens, v[5])]

\* the body of the loop leaving out a date whose record does not parse
window_step_skip(time_series, date, acc) ==
    LET v == parsed(time_series[date])
    IN  IF FirstExc(v) # None THEN acc ELSE appended(acc, date, v)

\* lines 165-170: the body of the loop
window_step(time_series, date, acc) ==
    LET v == parsed(time_series[date])
    IN  IF FirstExc(v) # None
        THEN [NoLists EXCEPT !.raised = FirstExc(v)]
        ELSE appended(acc, date, v)

\* the loop skipping a date whose record does not parse
RECURSIVE window_loop_skip(_, _, _, _, _)
window_loop_skip(time_series, sorted_dates_, lo, hi, acc) ==
    IF lo >= hi \/ acc.raised # None THEN acc
    ELSE IF hi = lo + 1 THEN window_step_skip(time_series, sorted_dates_[lo + 1], acc)
    ELSE window_loop_skip(time_series, sorted_dates_, (lo + hi) \div 2, hi,
            window_loop_skip(time_series, sorted_dates_, lo, (lo + hi) \div 2, acc))

\* lines 164-170: the loop; an exception raised while a date is parsed ends it
RECURSIVE window_loop(_, _, _, _, _)
window_loop(time_series, sorted_dates_, lo, hi, acc) ==
    IF lo >= hi \/ acc.raised # None THEN acc
    ELSE IF hi = lo + 1 THEN window_step(time_series, sorted_dates_[lo + 1], acc)
    ELSE window_loop(time_series, sorted_dates_, (lo + hi) \div 2, hi,
            window_loop(time_series, sorted_dates_, lo, (lo + hi) \div 2, acc))

\* lines 153-170
build_window(time_series, sorted_dates_) ==
    window_loop(time_series, sorted_dates_, 0, Len(sorted_dates_), NoLists)

\* line 182
display_length(dates_) == Min(30, Len(dates_))

\* line 183 with the offset one too far
start_index_off(dates_) == Len(dates_) - display_length(dates_) + 1

\* line 183
start_index(dates_) == Len(dates_) - display_length(dates_)

\* s[start:]
From(s, start) == Slice(s, start, Len(s))

IndicatorNames ==
    {"sma_20", "sma_50", "ema_12", "ema_26", "rsi",
     "bollinger_upper", "bollinger_middle", "bollinger_lower",
     "macd_line", "macd_signal", "macd_histogram"}

NoResult == [kind |-> "none"]

Unset == [name \in IndicatorNames |-> <<>>]

\* the calls of lines 173-179 in the order of the source
CodeOrder == <<"sma_20", "sma_50", "ema_12", "ema_26", "rsi", "bollinger", "macd">>

\* the part of a step that every call of lines 173-179 shares: it is the
\* next call in the order, an exception it raises ends process_stock_data,
\* and otherwise its results are bound to their names
Bind(call, names, series) ==
    /\ pc = "indicators"
    /\ step < Len(order)
    /\ order[step + 1] = call
    /\ step' = step + 1
    /\ IF FirstRaised(series) # None
       THEN /\ pc' = "done"
            /\ result' = [kind |-> "raised", exc |-> FirstRaised(series)]
            /\ UNCHANGED ind
       ELSE /\ ind' = [n \in IndicatorNames |->
                        IF \E k \in 1..Len(names) : names[k] = n
                        THEN series[CHOOSE k \in 1..Len(names) : names[k] = n]
                        ELSE ind[n]]
            /\ UNCHANGED <<pc, result>>
    /\ UNCHANGED <<data, order, dates, volumes, highs, lows, opens, libVars>>

\* lines 150-170 and 209
Build ==
    /\ pc = "start"
    /\ IF ~data.has_series
       THEN /\ pc' = "done"
            /\ result' = [kind |-> "None"]
            /\ UNCHANGED <<dates, prices, volumes, highs, lows, opens>>
       ELSE LET w == build_window(data.time_series, sorted_dates(data.keys))
            IN  IF w.raised # None
                THEN /\ pc' = "done"
                     /\ result' = [kind |-> "raised", exc |-> w.raised]
                     /\ UNCHANGED <<dates, prices, volumes, highs, lows, opens>>
                ELSE /\ dates' = w.dates
                     /\ prices' = w.prices
                     /\ volumes' = w.volumes
                     /\ highs' = w.highs
                     /\ lows' = w.lows
                     /\ opens' = w.opens
                     /\ pc' = "indicators"
                     /\ UNCHANGED result
    /\ UNCHANGED <<data, order, step, ind, libVars>>

\* line 173
Call_sma_20 ==
    /\ Bind("sma_20", <<"sma_20">>, <<calculate_sma(prices, 20)>>)
    /\ prices' = prices

\* line 174
Call_sma_50 ==
    /\ Bind("sma_50", <<"sma_50">>, <<calculate_sma(prices, 50)>>)
    /\ prices' = prices

\* line 175
Call_ema_12 ==
    /\ Bind("ema_12", <<"ema_12">>, <<calculate_ema(prices, 12)>>)
    /\ prices' = prices

\* line 176
Call_ema_26 ==
    /\ Bind("ema_26", <<"ema_26">>, <<calculate_ema(prices, 26)>>)
    /\ prices' = prices

\* line 177 with calculate_rsi consuming the first price of its argument
\* (prices.pop(0) on the list object it shares with its caller)
Call_rsi_consuming ==
    /\ Bind("rsi", <<"rsi">>, <<calculate_rsi(prices, 14)>>)
    /\ prices' = IF prices = <<>> THEN prices ELSE Tail(prices)

\* line 177
Call_rsi ==
    /\ Bind("rsi", <<"rsi">>, <<calculate_rsi(prices, 14)>>)
    /\ prices' = prices

\* line 178
Call_bollinger ==
    /\ Bind("bollinger", <<"bollinger_upper", "bollinger_middle", "bollinger_lower">>,
            calculate_bollinger_bands(prices, 20, 2))
    /\ prices' = prices

\* line 179
Call_macd ==
    /\ Bind("macd", <<"macd_line", "macd_signal", "macd_histogram">>,
            calculate_macd(prices, 12, 26, 9))
    /\ prices' = prices

\* lines 181-207
Return ==
    /\ pc = "indicators"
    /\ step = Len(order)
    /\ pc' = "done"
    /\ LET start == start_index(dates)
           symbol == data.meta["2. Symbol"]
           last_refreshed == data.meta["3. Last Refreshed"]
       IN  result' =
             IF {"2. Symbol", "3. Last Refreshed"} \ DOMAIN data.meta # {}
             THEN [kind |-> "raised", exc |-> Exc("KeyError")]
             ELSE [kind |-> "bundle",
                   dates |-> From(dates, start),
                   prices |-> From(prices, start),
                   volumes |-> From(volumes, start),
                   highs |-> From(highs, start),
                   lows |-> From(lows, start),
                   opens |-> From(opens, start),
                   indicators |-> [n \in IndicatorNames |-> From(ind[n], start)],
                   symbol |-> symbol,
                   last_refreshed |-> last_refreshed]
    /\ UNCHANGED <<data, order, step, dates, prices, volumes, highs, lows, opens, ind, libVars>>

(***************************************************************************)
(* The arguments process_stock_data is called with                         *)
(***************************************************************************)
MaxDates == 62

DigitChar(n) == CHOOSE c \in DigitChars : Ascii[c] = 48 + n

RECURSIVE Decimal(_)
Decimal(n) ==
    IF n < 10 THEN <<DigitChar(n)>> ELSE Decimal(n \div 10) \o <<DigitChar(n % 10)>>

TwoDigits(n) == <<DigitChar(n \div 10), DigitChar(n % 10)>>

\* the r-th trading day, as the key "2024-MM-DD"
DateKey(r) ==
    <<"2", "0", "2", "4", "-">> \o TwoDigits((r - 1) \div 28 + 1)
        \o <<"-">> \o TwoDigits(((r - 1) % 28) + 1)

\* the trading day a key stands for
Rank(k) == 28 * (DigitsValue(SubSeq(k, 6, 7)) - 1) + DigitsValue(SubSeq(k, 9, 10))

\* the shapes of the close series: a falling line, a flat line, and a
\* rising line whose last day falls back
Falling == [slope |-> -1, jump |-> 0]

Flat == [slope |-> 0, jump |-> 0]

RisingDip == [slope |-> 2, jump |-> -5]

Level(r, n, shape) == 200 + shape.slope * r + (IF r = n THEN shape.jump ELSE 0)

DayRecord(r, n, shape) ==
    ("1. open" :> Decimal(Level(r, n, shape))) @@
    ("2. high" :> Decimal(Level(r, n, shape) + 2)) @@
    ("3. low" :> Decimal(Level(r, n, shape) - 1) \o <<".", "2", "5">>) @@
    ("4. close" :> Decimal(Level(r, n, shape)) \o <<".", "5">>) @@
    ("5. volume" :> Decimal(900 + r))

Fields == {"1. open", "2. high", "3. low", "4. close", "5. volume"}

NoBad == [rank |-> 0, field |-> "", how |-> ""]

\* a record with one field missing or holding text
Spoil(rec, bad) ==
    IF bad.how = "absent"
    THEN [f \in (DOMAIN rec) \ {bad.field} |-> rec[f]]
    ELSE [rec EXCEPT ![bad.field] = <<"N", "/", "A">>]

KeyOrders == {"newest_first", "oldest_first", "interleaved"}

\* the iteration order of the dict's keys
Keys(n, key_order) ==
    List([i \in 1..n |->
        DateKey(CASE key_order = "newest_first" -> n + 1 - i
                  [] key_order = "oldest_first" -> i
                  [] OTHER -> IF 2 * i <= n THEN 2 * i ELSE 2 * (i - n \div 2) - 1)])

Meta == ("2. Symbol" :> <<"A">>) @@ ("3. Last Refreshed" :> DateKey(1))

MakeData(n, shape, key_order, bad) ==
    [has_series |-> TRUE,
     keys |-> Keys(n, key_order),
     time_series |-> [k \in {DateKey(r) : r \in 1..n} |->
                        LET r == Rank(k)
                        IN  IF r = bad.rank THEN Spoil(DayRecord(r, n, shape), bad)
                            ELSE DayRecord(r, n, shape)],
     meta |-> Meta]

\* a response without 'Time Series (Daily)'
NoSeriesData == [has_series |-> FALSE, keys |-> <<>>, time_series |-> <<>>, meta |-> Meta]

\* the table sizes tried: around every window of the indicators (14 + 1, 20,
\* 26, 26 + 9 - 1, 50), around the display length and around the 60 days
Sizes == {0, 1, 15, 16, 20, 26, 30, 31, 34, 35, 50} \cup 59..MaxDates

\* a well-formed table of each size, in three scenarios; each scenario
\* issues the seven indicator calls in an order of its own
Scenarios ==
    {[shape |-> Falling, key_order |-> "newest_first", order |-> CodeOrder],
     [shape |-> Flat, key_order |-> "oldest_first", order |-> reverse(CodeOrder)],
     [shape |-> RisingDip, key_order |-> "interleaved",
      order |-> <<"rsi", "macd", "sma_20", "bollinger", "ema_26", "sma_50", "ema_12">>]}

\* the malformed records tried: each field missing or holding text, on the
\* newest day and on the oldest selected day of tables of a few sizes, and
\* on the newest day that is not selected of the largest table
BadChoices ==
    {[n |-> n, rank |-> r, field |-> f, how |-> h] :
        n \in {1, 30, 60, MaxDates}, r \in 1..MaxDates, f \in Fields, h \in {"absent", "text"}}

SpoiltTables ==
    {b \in BadChoices :
        \/ b.rank \in {b.n, b.n - 59} \cap 1..b.n
        \/ b.n = MaxDates /\ b.rank = b.n - 60}

NoCall == [fn |-> "none"]

NoReturn == [raised |-> None, series |-> <<>>]

LibIdle ==
    /\ lib_prices = <<>>
    /\ lib_call = NoCall
    /\ lib_ret = NoReturn

Init ==
    /\ \/ \E n \in Sizes, sc \in Scenarios :
             /\ data = MakeData(n, sc.shape, sc.key_order, NoBad)
             /\ order = sc.order
       \/ \E b \in SpoiltTables :
             /\ data = MakeData(b.n, RisingDip, "newest_first", b)
             /\ order = CodeOrder
       \/ /\ data = NoSeriesData
          /\ order = CodeOrder
    /\ pc = "start"
    /\ step = 0
    /\ dates = <<>> /\ prices = <<>> /\ volumes = <<>>
    /\ highs = <<>> /\ lows = <<>> /\ opens = <<>>
    /\ ind = Unset
    /\ result = NoResult
    /\ LibIdle

Next ==
    \/ Build
    \/ Call_sma_20
    \/ Call_sma_50
    \/ Call_ema_12
    \/ Call_ema_26
    \/ Call_rsi
    \/ Call_bollinger
    \/ Call_macd
    \/ Return

Spec == Init /\ [][Next]_vars

(***************************************************************************)
(* Properties of process_stock_data                                        *)
(***************************************************************************)
Returned == pc = "done" /\ result.kind = "bundle"

\* out is the trailing min(30, L) entries of full, a series of length L
Trailing(out, full, L) ==
    /\ Len(full) = L
    /\ Len(out) = Min(30, L)
    /\ \A j \in 1..Min(30, L) : out[j] = full[L - Min(30, L) + j]

\* C2: the bundle holds dates, prices, volumes, highs, lows, opens and the
\* eleven indicator series, each the trailing min(30, L) entries of its
\* full-window series of length L, all cut at the offset L - min(30, L).
C2_Trim ==
    Returned =>
        LET L == Len(dates)
        IN  /\ Trailing(result.dates, dates, L)
            /\ Trailing(result.prices, prices, L)
            /\ Trailing(result.volumes, volumes, L)
            /\ Trailing(result.highs, highs, L)
            /\ Trailing(result.lows, lows, L)
            /\ Trailing(result.opens, opens, L)
            /\ DOMAIN result.indicators = IndicatorNames
            /\ \A n \in IndicatorNames : Trailing(result.indicators[n], ind[n], L)

C2_Witness ==
    /\ Returned
    /\ Len(dates) = 60
    /\ Len(result.dates) = 30
    /\ result.dates[1] = dates[31]
    /\ result.indicators["sma_50"][19] = None
    /\ result.indicators["sma_50"][20] = ind["sma_50"][50]
    /\ IsNum(result.indicators["sma_50"][20])

\* C3: with an empty dated table process_stock_data raises instead of
\* returning a bundle.
C3_EmptyTableRaises ==
    (pc = "done" /\ data.has_series /\ data.keys = <<>>) => result.kind = "raised"

\* the 60 most recent days of the table, by trading day
Selected == {k \in DOMAIN data.time_series : Rank(k) > Len(data.keys) - 60}

Numeric(str) ==
    /\ \E i \in 1..Len(str) : str[i] \in DigitChars
    /\ \A i \in 1..Len(str) : str[i] \in DigitChars \cup {"."}

Malformed(rec) == \E f \in Fields : f \notin DOMAIN rec \/ ~Numeric(rec[f])

\* C4: a selected date with a required field absent or not numeric makes
\* process_stock_data fail as a whole (no bundle, so no date dropped and no
\* ragged series); a malformed record on a date that is not selected causes
\* no failure.
C4_Malformed ==
    (pc = "done" /\ data.has_series) =>
        IF \E k \in Selected : Malformed(data.time_series[k])
        THEN result.kind = "raised"
        ELSE /\ result.kind = "bundle"
             /\ Len(result.dates) = Min(30, Cardinality(Selected))

C4_Witness ==
    /\ pc = "done"
    /\ result.kind = "raised"
    /\ Len(data.keys) > 60
    /\ Malformed(data.time_series[DateKey(Len(data.keys) - 59)])

\* C5: the window holds the min(60, N) greatest date keys in strictly
\* ascending order, and the value of every series at an index is the one
\* recorded under the date at that index.
C5_Window ==
    (pc = "indicators" /\ step = 0) =>
        LET N == Cardinality(DOMAIN data.time_series)
            L == Len(dates)
            rec(i) == data.time_series[dates[i]]
        IN  /\ L = Min(60, N)
            /\ \A i \in 1..L : dates[i] \in DOMAIN data.time_series
            /\ \A i \in 1..(L - 1) : StrLess(dates[i], dates[i + 1])
            /\ \A k \in DOMAIN data.time_series :
                  (\A i \in 1..L : dates[i] # k) => StrLess(k, dates[1])
            /\ Len(prices) = L /\ Len(volumes) = L /\ Len(highs) = L
            /\ Len(lows) = L /\ Len(opens) = L
            /\ \A i \in 1..L :
                  /\ prices[i] = py_float(rec(i)["4. close"])
                  /\ volumes[i] = py_int(rec(i)["5. volume"])
                  /\ highs[i] = py_float(rec(i)["2. high"])
                  /\ lows[i] = py_float(rec(i)["3. low"])
                  /\ opens[i] = py_float(rec(i)["1. open"])

C5_Witness ==
    /\ pc = "indicators"
    /\ step = 0
    /\ Len(data.keys) = 62
    /\ data.keys[1] # DateKey(62)
    /\ Len(dates) = 60
    /\ dates[1] = DateKey(3)
    /\ dates[60] = DateKey(62)

\* C10: whatever the order of the seven indicator calls, the price series
\* after them is the one the window was built with, and every indicator
\* series of the bundle's window is what its function yields on that price
\* series: no call changes the prices or another call's result.
C10_Independent ==
    Returned =>
        /\ prices = [i \in 1..Len(dates) |-> py_float(data.time_series[dates[i]]["4. close"])]
        /\ ind["sma_20"] = calculate_sma(prices, 20)
        /\ ind["sma_50"] = calculate_sma(prices, 50)
        /\ ind["ema_12"] = calculate_ema(prices, 12)
        /\ ind["ema_26"] = calculate_ema(prices, 26)
        /\ ind["rsi"] = calculate_rsi(prices, 14)
        /\ <<ind["bollinger_upper"], ind["bollinger_middle"], ind["bollinger_lower"]>>
              = calculate_bollinger_bands(prices, 20, 2)
        /\ <<ind["macd_line"], ind["macd_signal"], ind["macd_histogram"]>>
              = calculate_macd(prices, 12, 26, 9)

C10_Witness ==
    /\ Returned
    /\ order # CodeOrder
    /\ order[1] = "rsi"
    /\ Len(prices) = 60
    /\ IsNum(ind["macd_histogram"][60])
    /\ ind["rsi"][60] # Rat(100)

(***************************************************************************)
(* One call of a library function on a bounded price series               *)
(***************************************************************************)
MaxLen == 5

MaxWindow == 3

PriceVals == {1, 2, 4}

Windows == 1..MaxWindow

PriceSeqs ==
    UNION {[1..n -> {Rat(v) : v \in PriceVals}] : n \in 0..MaxLen}

\* what the caller observes: the tuple of returned lists, or the exception
Outcome(t) ==
    IF FirstRaised(t) # None
    THEN [raised |-> FirstRaised(t), series |-> <<>>]
    ELSE [raised |-> None, series |-> t]

ProcIdle ==
    /\ data = NoSeriesData
    /\ order = <<>>
    /\ pc = "idle"
    /\ step = 0
    /\ dates = <<>> /\ prices = <<>> /\ volumes = <<>>
    /\ highs = <<>> /\ lows = <<>> /\ opens = <<>>
    /\ ind = Unset
    /\ result = NoResult

LibInit ==
    /\ lib_prices \in PriceSeqs
    /\ lib_call = NoCall
    /\ lib_ret = NoReturn
    /\ ProcIdle

Lib_sma ==
    /\ lib_call = NoCall
    /\ \E w \in Windows :
        /\ lib_call' = [fn |-> "calculate_sma", window |-> w]
        /\ lib_ret' = Outcome(<<calculate_sma(lib_prices, w)>>)
    /\ UNCHANGED <<lib_prices, procVars>>

Lib_ema ==
    /\ lib_call = NoCall
    /\ \E w \in Windows :
        /\ lib_call' = [fn |-> "calculate_ema", window |-> w]
        /\ lib_ret' = Outcome(<<calculate_ema(lib_prices, w)>>)
    /\ UNCHANGED <<lib_prices, procVars>>

Lib_rsi ==
    /\ lib_call = NoCall
    /\ \E w \in Windows :
        /\ lib_call' = [fn |-> "calculate_rsi", window |-> w]
        /\ lib_ret' = Outcome(<<calculate_rsi(lib_prices, w)>>)
    /\ UNCHANGED <<lib_prices, procVars>>

Lib_bollinger ==
    /\ lib_call = NoCall
    /\ \E w \in Windows, k \in {1, 2} :
        /\ lib_call' = [fn |-> "calculate_bollinger_bands", window |-> w, num_std |-> k]
        /\ lib_ret' = Outcome(calculate_bollinger_bands(lib_prices, w, k))
    /\ UNCHANGED <<lib_prices, procVars>>

Lib_macd ==
    /\ lib_call = NoCall
    /\ \E f \in Windows, sl \in Windows, sg \in Windows :
        /\ lib_call' = [fn |-> "calculate_macd", fast |-> f, slow |-> sl, signal |-> sg]
        /\ lib_ret' = Outcome(calculate_macd(lib_prices, f, sl, sg))
    /\ UNCHANGED <<lib_prices, procVars>>

LibNext == Lib_sma \/ Lib_ema \/ Lib_rsi \/ Lib_bollinger \/ Lib_macd

LibSpec == LibInit /\ [][LibNext]_vars

(***************************************************************************)
(* Properties of the library                                               *)
(***************************************************************************)
Called(fn) == lib_call.fn = fn /\ lib_ret.raised = None

\* C1: every library function returns without raising, and each series it
\* returns (one for SMA, EMA and RSI, three for Bollinger and MACD) has the
\* length of the price series, also when that is shorter than the window.
C1_LengthPreserved ==
    lib_call # NoCall =>
        /\ lib_ret.raised = None
        /\ Len(lib_ret.series) =
              (IF lib_call.fn \in {"calculate_bollinger_bands", "calculate_macd"} THEN 3 ELSE 1)
        /\ \A k \in 1..Len(lib_ret.series) : Len(lib_ret.series[k]) = Len(lib_prices)

C1_Witness ==
    /\ Called("calculate_macd")
    /\ Len(lib_prices) >= 1
    /\ Len(lib_prices) < lib_call.slow
    /\ Len(lib_ret.series[3]) = Len(lib_prices)

\* the loss of delta j (0-based), max(-(p[j+1] - p[j]), 0)
LossAt(p, j) ==
    LET delta == Sub(p[j + 2], p[j + 1])
    IN  IF Less(delta, Rat(0)) THEN Neg(delta) ELSE Rat(0)

\* Wilder's average loss once delta j (0-based) is smoothed in: the mean of
\* the first w losses, then (avg * (w - 1) + loss) / w for each delta from w on
RECURSIVE WilderAvgLoss(_, _, _)
WilderAvgLoss(p, w, j) ==
    IF j < w
    THEN Div(sum([k \in 1..w |-> LossAt(p, k - 1)]), Rat(w))
    ELSE Div(Add(Mul(WilderAvgLoss(p, w, j - 1), Rat(w - 1)), LossAt(p, j)), Rat(w))

\* C6: every defined entry of calculate_rsi's output lies in [0, 100], and is
\* exactly 100 wherever the Wilder-smoothed average loss of that step is 0.
C6_RsiRange ==
    lib_call.fn = "calculate_rsi" =>
        /\ lib_ret.raised = None
        /\ \A i \in 1..Len(lib_ret.series[1]) :
              LET v == lib_ret.series[1][i]
              IN  v # None =>
                    /\ IsNum(v)
                    /\ ~Less(v, Rat(0))
                    /\ ~Less(Rat(100), v)
                    /\ (WilderAvgLoss(lib_prices, lib_call.window, i - 2) = Rat(0)
                            => v = Rat(100))

C6_Witness ==
    /\ Called("calculate_rsi")
    /\ Len(lib_prices) >= lib_call.window + 2
    /\ \A i \in 1..Len(lib_prices) : lib_prices[i] = lib_prices[1]
    /\ lib_ret.series[1][Len(lib_prices)] = Rat(100)

\* C7: the MACD histogram is defined exactly where both the MACD line and the
\* signal line are, and is their difference there.
C7_Histogram ==
    lib_call.fn = "calculate_macd" =>
        /\ lib_ret.raised = None
        /\ LET m == lib_ret.series[1]
               s == lib_ret.series[2]
               h == lib_ret.series[3]
           IN  \A i \in 1..Len(lib_prices) :
                  /\ (h[i] # None) <=> (m[i] # None /\ s[i] # None)
                  /\ h[i] # None => h[i] = Sub(m[i], s[i])

C7_Witness ==
    /\ Called("calculate_macd")
    /\ \E i, j \in 1..Len(lib_prices) :
          /\ lib_ret.series[1][i] # None
          /\ lib_ret.series[2][i] = None
          /\ lib_ret.series[3][i] = None
          /\ lib_ret.series[3][j] # None
          /\ lib_ret.series[3][j] # Rat(0)

IsDefined(v) == v # None

\* the number of leading None entries of a series
RECURSIVE LeadingNone(_)
LeadingNone(s) ==
    IF s = <<>> \/ s[1] # None THEN 0 ELSE 1 + LeadingNone(Tail(s))

\* C8: the signal line is EMA(signal) of the compacted defined MACD values,
\* shifted right by the p leading undefined MACD entries; it is first defined
\* at index p + signal - 1, with the mean of the first `signal` defined MACD
\* values; with fewer than `signal` defined MACD values the signal line and
\* the histogram are undefined everywhere.
C8_SignalLine ==
    lib_call.fn = "calculate_macd" =>
        /\ lib_ret.raised = None
        /\ LET m == lib_ret.series[1]
               s == lib_ret.series[2]
               h == lib_ret.series[3]
               sg == lib_call.signal
               compacted == SelectSeq(m, IsDefined)
               d == Len(compacted)
               p == LeadingNone(m)
               e == calculate_ema(compacted, sg)
           IN  /\ p + d = Len(m)
               /\ d >= sg =>
                    /\ \A j \in 1..d : s[p + j] = e[j]
                    /\ \A i \in 1..(p + sg - 1) : s[i] = None
                    /\ s[p + sg] = Div(sum(SubSeq(compacted, 1, sg)), Rat(sg))
               /\ d < sg =>
                    \A i \in 1..Len(m) : s[i] = None /\ h[i] = None

C8_Witness ==
    /\ Called("calculate_macd")
    /\ lib_call.signal >= 2
    /\ LeadingNone(lib_ret.series[1]) >= 1
    /\ Len(lib_prices) - LeadingNone(lib_ret.series[1]) > lib_call.signal
    /\ lib_ret.series[2][LeadingNone(lib_ret.series[1]) + lib_call.signal] # None
    /\ lib_ret.series[2][LeadingNone(lib_ret.series[1]) + lib_call.signal - 1] = None

\* C9: calculate_rsi(prices, window) is undefined at the indices 0..window and
\* defined at every later index, so it is undefined everywhere when the series
\* has fewer than window + 1 points.
C9_RsiPrefix ==
    lib_call.fn = "calculate_rsi" =>
        /\ lib_ret.raised = None
        /\ \A i \in 0..(Len(lib_prices) - 1) :
              /\ i <= lib_call.window => lib_ret.series[1][i + 1] = None
              /\ i > lib_call.window => IsNum(lib_ret.series[1][i + 1])

C9_Witness ==
    /\ Called("calculate_rsi")
    /\ Len(lib_prices) >= lib_call.window + 2
    /\ lib_ret.series[1][lib_call.window + 1] = None
    /\ IsNum(lib_ret.series[1][lib_call.window + 2])

====
